---- MODULE Spec2Model ----
(***************************************************************************)
(* A model of the DOM snapshot core of browser-use:                        *)
(*   - DomService._construct_dom_tree / _parse_node (dom/service.py),      *)
(*     the flat id -> node_data map folded into a linked tree and a        *)
(*     selector map, one loop iteration per step;                          *)
(*   - DomService._build_dom_tree / click_element (dom/service.py);        *)
(*   - the page scan of BrowserUse.scan_interactive_elements (browser.py). *)
(*                                                                         *)
(* Encoding of the raw payload.  eval_page['map'] is a Python dict, which  *)
(* iterates in insertion order over distinct keys.  The builder uses an id *)
(* only as a lookup key, so the ids are named by their iteration position: *)
(* js_node_map[i] is the node_data of the i-th entry, whose id is i.  Ids  *)
(* beyond Len(js_node_map), and MissingId, are ids with no entry.  The     *)
(* entries are revealed to the loop one at a time, as the dict iterator    *)
(* yields them.                                                            *)
(***************************************************************************)
EXTENDS Integers, Sequences, FiniteSets, TLC

\* Most entries a raw map holds.
MaxEntries == 3
\* Most child references (summed over all children lists) a raw map holds.
MaxRefs == 2

\* Python's None.
None == -1
\* An id that no entry of the map carries.
MissingId == 0
Ids == 1..MaxEntries
\* The ids rootId may name.
RootIds == Ids \cup {MissingId}
\* The highlightIndex values the payloads carry.
HighlightIndices == {0, 1}

VARIABLES
    pc,            \* where the running call stands
    js_node_map,   \* eval_page['map'], the entries iterated so far
    js_root_id,    \* eval_page['rootId'], None until it is read
    node_map,      \* id -> node object (service.py:158)
    selector_map,  \* highlight index -> id of the node object (service.py:157)
    xpath_cache,   \* DomService.xpath_cache (service.py:28)
    outcome,       \* how the call ended: "none", "returned", "KeyError", "ValueError"
    calls,         \* _construct_dom_tree calls this service instance has finished
    first_result   \* what the first of two calls on one payload gave (NoResult before)

buildVars == <<js_node_map, js_root_id, node_map, selector_map, outcome>>

serviceVars == <<xpath_cache, calls, first_result>>

domVars == <<pc, buildVars, serviceVars>>

VARIABLES
    url,             \* page.url
    page_eval,       \* the page's script context and what the extraction script gives in it
    op,              \* the DomService method the caller called
    highlight_index, \* the index click_element was called with
    evaluate_log,    \* the scripts page.evaluate was called with, in order
    located,         \* what page.wait_for_selector gave
    click_result,    \* how element_handle.click() ended
    clicks_issued,   \* the xpaths element_handle.click() was called on, in order
    ret              \* what the method returned, or the exception it raised

pageVars == <<url, page_eval, op, highlight_index, evaluate_log, located, click_result,
              clicks_issued, ret>>

VARIABLES
    document,            \* the page BrowserUse.scan_interactive_elements scans
    include_hidden,      \* its include_hidden argument
    stack,               \* the pending processElement calls, the next one first
    interactiveElements, \* the script's result list (browser.py:301)
    highlightIndex       \* the script's counter (browser.py:302)

scanVars == <<document, include_hidden, stack, interactiveElements, highlightIndex>>

VARIABLES
    candidate,      \* the element isInteractiveElement is called on
    classification  \* what it returned ("none" before)

classVars == <<candidate, classification>>

VARIABLES
    iframes,            \* the page's <iframe> elements, in document order
    hidden_frame_urls,  \* the src list of the iframes that are not visible
    frame_at,           \* position in page.frames of the frame looked at next
    frame_urls          \* the list get_cross_origin_iframes builds

frameVars == <<iframes, hidden_frame_urls, frame_at, frame_urls>>

VARIABLES
    highlight_elements, \* the highlight_elements argument of the running snapshot
    overlay,            \* the live page carries a highlight overlay
    screenshots         \* for each page.screenshot taken: was the overlay on the page

overlayVars == <<highlight_elements, overlay, screenshots>>

VARIABLES
    text,            \* action["input_text"]["text"], as a sequence of keys
    target_content   \* what the element the action addresses holds

typeVars == <<text, target_content>>

VARIABLES
    second_order  \* the order of the ids in which a second build iterated the map

orderVars == <<second_order>>

VARIABLES
    action,               \* what analyze_page returned to execute_ai_command
    shown_selector_map,   \* the selector map analyze_page showed to the planner
    same_element,         \* live element -> the element of the shown snapshot it is
    status                \* the status execute_ai_command returned ("none" before)

commandVars == <<action, shown_selector_map, same_element, status>>

earlierVars == <<classVars, frameVars, overlayVars, typeVars, orderVars>>

VARIABLES
    max_actions,         \* run_task's max_actions argument
    max_thinking_steps,  \* AIController.max_thinking_steps
    thinking_steps,      \* run_task's local counter of think actions
    action_count,        \* run_task's local counter of loop iterations
    suggested,           \* run_task's local `action`, by its "action" value
    final_result,        \* run_task's final_result
    analyze_calls,       \* calls of analyze_and_suggest_action so far
    execute_calls,       \* calls of execute_action so far
    think_run,           \* think answers since the last concrete action was executed
    complete_received    \* an action of type "complete" has been received

agentVars == <<max_actions, max_thinking_steps, thinking_steps, action_count, suggested,
               final_result, analyze_calls, execute_calls, think_run, complete_received>>

VARIABLES
    max_retries,         \* GeminiTaskRunner.max_retries
    retries,             \* _with_rate_limit_handling's local retries
    delay,               \* _with_rate_limit_handling's local delay, in seconds
    rate_limit_retries,  \* report["rate_limit_retries"]
    retries_at_entry,    \* report["rate_limit_retries"] when the wrapper was entered
    invocations,         \* calls of the wrapped function so far
    errors,              \* the errors the wrapped function raised, in order
    raised               \* the error the wrapper raised, NoError if none

retryVars == <<max_retries, retries, delay, rate_limit_retries, retries_at_entry, invocations,
               errors, raised>>

VARIABLES
    browser_type,        \* NativeBrowser.browser_type
    driver,              \* NativeBrowser.driver: a WebDriver, or NoDriver for None
    wait,                \* the driver NativeBrowser.wait waits on, or NoDriver for None
    drivers_created,     \* WebDrivers created so far; they are numbered from 1
    quit_drivers,        \* the WebDrivers quit() was called on
    started,             \* start() has returned and stop() was not called since
    last_call            \* the last method called, what it raised, the driver it used

nativeVars == <<browser_type, driver, wait, drivers_created, quit_drivers, started, last_call>>

VARIABLES
    styles,              \* each element's style attribute
    styles_before,       \* each element's style attribute before the first call
    target,              \* highlight_element's element, 0 if it was not called
    duration,            \* highlight_element's duration
    found,               \* the visible elements the scan returned
    highlight_raised     \* highlight_element raised BrowserOperationError

styleVars == <<styles, styles_before, target, duration, found, highlight_raised>>

VARIABLES
    max_steps,            \* TaskRunner.max_steps
    current_step_number,  \* TaskRunner.current_step_number
    next_step,            \* execute_task's local next_step
    step_history,         \* TaskRunner.step_history, by each entry's result
    ended_by,             \* why the loop of execute_task ended
    summary,              \* what _save_task_summary wrote, NoSummary before
    task_result           \* what execute_task returned, NoSummary before

runnerVars == <<max_steps, current_step_number, next_step, step_history, ended_by, summary,
                task_result>>

laterVars == <<commandVars, agentVars, retryVars, nativeVars, styleVars, runnerVars>>

\* The state of the program's other parts, seen from the part named.
lowerVars == <<buildVars, serviceVars, pageVars, scanVars, earlierVars>>
notCommandVars == <<agentVars, retryVars, nativeVars, styleVars, runnerVars>>
notAgentVars == <<lowerVars, commandVars, retryVars, nativeVars, styleVars, runnerVars>>
notRetryVars == <<lowerVars, commandVars, agentVars, nativeVars, styleVars, runnerVars>>
notNativeVars == <<domVars, pageVars, scanVars, earlierVars, commandVars, agentVars, retryVars,
                   styleVars, runnerVars>>
notStyleVars == <<buildVars, serviceVars, pageVars, scanVars, earlierVars, commandVars, agentVars,
                  retryVars, nativeVars, runnerVars>>
notRunnerVars == <<buildVars, serviceVars, pageVars, scanVars, earlierVars, commandVars,
                   agentVars, retryVars, nativeVars, styleVars>>

\* The state of the parts modelled further down.
restVars == <<earlierVars, laterVars>>

vars == <<domVars, pageVars, scanVars, restVars>>

----------------------------------------------------------------------------
\* Small helpers.

EmptyMap == [x \in {} |-> None]

NoResult == [outcome |-> "none"]

RECURSIVE SeqSum(_)
SeqSum(s) == IF s = <<>> THEN 0 ELSE Head(s) + SeqSum(Tail(s))

Range(s) == {s[i] : i \in DOMAIN s}

----------------------------------------------------------------------------
\* The raw payload entries.

\* A node_data with every field of it the model follows.  "missing" names the
\* required key the entry lacks ("none": it lacks none).  The fields the
\* builder copies without reading (xpath, attributes, text, isTopElement,
\* shadowRoot, viewport) are left out; the xpath of an entry stands for the
\* element it was emitted for, and is modelled by the entry's id.
NodeData(type, missing, tag, shown, hi, children) ==
    [type |-> type, missing |-> missing, tagName |-> tag,
     isVisible |-> shown[1], isInViewport |-> shown[2],
     highlightIndex |-> hi, children |-> children]

Shown == <<TRUE, TRUE>>

EmptyEntry == NodeData("EMPTY", "none", "", Shown, None, <<>>)

TextEntries ==
    {NodeData("TEXT_NODE", m, "", Shown, None, <<>>) : m \in {"none", "text", "isVisible"}}

MalformedElements ==
    {NodeData("ELEMENT", m, "", Shown, None, <<>>) : m \in {"tagName", "xpath"}}

\* A children list names ids of the map; one that no entry carries is an id
\* beyond the last entry (the map may end early), or one of an empty entry.
ChildLists(maxLen) ==
    UNION {[1..n -> Ids] : n \in 0..maxLen}

\* Elements without an index: a container, or a leaf.
PlainElements(maxLen) ==
    {NodeData("ELEMENT", "none", IF c = <<>> THEN "div" ELSE "body", Shown, None, c) :
        c \in ChildLists(maxLen)}

\* Elements with an index: a leaf with either index, or a container.
IndexedElements(maxLen) ==
    {NodeData("ELEMENT", "none", "button", Shown, hi, <<>>) : hi \in HighlightIndices}
    \cup {NodeData("ELEMENT", "none", "a", Shown, 0, c) : c \in ChildLists(maxLen) \ {<<>>}}

\* The entries the iterator may yield next, with `refs` child references left.
Entries(refs) ==
    {EmptyEntry} \cup TextEntries \cup MalformedElements
        \cup PlainElements(refs) \cup IndexedElements(refs)

RefsUsed(m) == SeqSum([i \in DOMAIN m |-> Len(m[i].children)])

----------------------------------------------------------------------------
\* DomService._parse_node

NoNode == [kind |-> "none"]

\* DOMTextNode(text=..., is_visible=...)
DOMTextNode(node_data) ==
    [kind |-> "text", tag_name |-> "", is_visible |-> node_data.isVisible,
     is_in_viewport |-> FALSE, highlight_index |-> None,
     children |-> <<>>, parent |-> None]

\* DOMElementNode(tag_name=..., xpath=..., is_visible=..., is_in_viewport=...,
\* highlight_index=..., ...)
DOMElementNode(node_data) ==
    [kind |-> "element", tag_name |-> node_data.tagName,
     is_visible |-> node_data.isVisible, is_in_viewport |-> node_data.isInViewport,
     highlight_index |-> node_data.highlightIndex,
     children |-> <<>>, parent |-> None]

\* The result of _parse_node: the node (NoNode for None), the children ids, or
\* raised = TRUE when a required key is absent (KeyError).
ParseNode(node_data) ==
    IF node_data.type = "EMPTY"
    THEN [raised |-> FALSE, node |-> NoNode, children_ids |-> <<>>]
    ELSE IF node_data.type = "TEXT_NODE"
    THEN [raised |-> node_data.missing # "none", node |-> DOMTextNode(node_data),
          children_ids |-> <<>>]
    ELSE [raised |-> node_data.missing # "none", node |-> DOMElementNode(node_data),
          children_ids |-> node_data.children]

----------------------------------------------------------------------------
\* DomService._construct_dom_tree

\* LinkChildren as it would be with node.children.insert(0, child_node).
RECURSIVE LinkChildrenPrepending(_, _, _)
LinkChildrenPrepending(nm, id, children_ids) ==
    IF children_ids = <<>> THEN nm
    ELSE LET child_id == Head(children_ids) IN
         IF child_id \notin DOMAIN nm
         THEN LinkChildrenPrepending(nm, id, Tail(children_ids))
         ELSE LET nm1 == [nm EXCEPT ![child_id].parent = id]
                  nm2 == [nm1 EXCEPT ![id].children = <<child_id>> \o @]
              IN LinkChildrenPrepending(nm2, id, Tail(children_ids))

\* LinkChildren as it would be if it left the loop at the first child id
\* that is not in node_map.
RECURSIVE LinkChildrenStopping(_, _, _)
LinkChildrenStopping(nm, id, children_ids) ==
    IF children_ids = <<>> THEN nm
    ELSE LET child_id == Head(children_ids) IN
         IF child_id \notin DOMAIN nm
         THEN nm
         ELSE LET nm1 == [nm EXCEPT ![child_id].parent = id]
                  nm2 == [nm1 EXCEPT ![id].children = Append(@, child_id)]
              IN LinkChildrenStopping(nm2, id, Tail(children_ids))

\* The inner loop: for child_id in children_ids (service.py:173-180).
RECURSIVE LinkChildren(_, _, _)
LinkChildren(nm, id, children_ids) ==
    IF children_ids = <<>> THEN nm
    ELSE LET child_id == Head(children_ids) IN
         IF child_id \notin DOMAIN nm
         THEN LinkChildren(nm, id, Tail(children_ids))
         ELSE LET nm1 == [nm EXCEPT ![child_id].parent = id]
                  nm2 == [nm1 EXCEPT ![id].children = Append(@, child_id)]
              IN LinkChildren(nm2, id, Tail(children_ids))

\* selector_map[node.highlight_index] = node (service.py:167-168)
RecordIndex(sm, id, node) ==
    IF node.kind = "element" /\ node.highlight_index # None
    THEN (node.highlight_index :> id) @@ sm
    ELSE sm

\* LoopBody as it would be if it reused the node objects of earlier builds,
\* kept in self.xpath_cache under their xpath.
LoopBodyCaching(b, id, node_data) ==
    LET p == ParseNode(node_data) IN
    IF p.node = NoNode THEN b
    ELSE LET node == IF id \in DOMAIN b.xpath_cache THEN b.xpath_cache[id] ELSE p.node
             nm == (id :> node) @@ b.node_map
             linked == IF node.kind = "element"
                       THEN LinkChildren(nm, id, p.children_ids)
                       ELSE nm
         IN [node_map |-> linked,
             selector_map |-> RecordIndex(b.selector_map, id, node),
             xpath_cache |-> (id :> linked[id]) @@ b.xpath_cache]

\* One iteration of the loop over js_node_map.items() for an entry that
\* parsed without raising; b is [node_map, selector_map, xpath_cache].
LoopBody(b, id, node_data) ==
    LET p == ParseNode(node_data) IN
    IF p.node = NoNode THEN b
    ELSE LET nm == (id :> p.node) @@ b.node_map IN
         [node_map |-> IF p.node.kind = "element"
                       THEN LinkChildren(nm, id, p.children_ids)
                       ELSE nm,
          selector_map |-> RecordIndex(b.selector_map, id, p.node),
          xpath_cache |-> b.xpath_cache]

\* The lines after the loop (service.py:182-193): how the call ends.
ResolveRoot(nm, root_id) ==
    IF root_id \notin DOMAIN nm THEN "KeyError"
    ELSE IF nm[root_id].kind # "element" THEN "ValueError"
    ELSE "returned"

\* IterateMap as it would be if it kept each node under the position of its
\* entry in the iteration instead of under its id.
RECURSIVE IterateFrom(_, _, _)
IterateFrom(b, items, position) ==
    IF items = <<>> THEN [raised |-> FALSE, b |-> b]
    ELSE IF ParseNode(Head(items).data).raised THEN [raised |-> TRUE, b |-> b]
    ELSE IterateFrom(LoopBody(b, position, Head(items).data), Tail(items), position + 1)

IterateMapByPosition(b, items) == IterateFrom(b, items, 1)

\* The loop over a whole map, given as a sequence of [id, data] items: the
\* builder it ends with, and whether _parse_node raised on the way.
RECURSIVE IterateMap(_, _)
IterateMap(b, items) ==
    IF items = <<>> THEN [raised |-> FALSE, b |-> b]
    ELSE IF ParseNode(Head(items).data).raised THEN [raised |-> TRUE, b |-> b]
    ELSE IterateMap(LoopBody(b, Head(items).id, Head(items).data), Tail(items))

\* A whole call of _construct_dom_tree on a service whose xpath_cache is `cache`.
ConstructDomTree(items, root_id, cache) ==
    LET r == CHOOSE x \in {IterateMap([node_map |-> EmptyMap, selector_map |-> EmptyMap,
                                       xpath_cache |-> cache], items)} : TRUE
    IN [outcome |-> IF r.raised THEN "KeyError" ELSE ResolveRoot(r.b.node_map, root_id),
        node_map |-> r.b.node_map,
        selector_map |-> r.b.selector_map,
        root |-> IF r.raised THEN None ELSE root_id,
        xpath_cache |-> r.b.xpath_cache]

\* The items of a map whose ids are the iteration positions.
Items(m) == [i \in DOMAIN m |-> [id |-> i, data |-> m[i]]]

Builder == [node_map |-> node_map, selector_map |-> selector_map, xpath_cache |-> xpath_cache]

\* One iteration of `for id, node_data in js_node_map.items()`.
ParseEntry ==
    /\ pc = "loop"
    /\ Len(js_node_map) < MaxEntries
    /\ \E node_data \in Entries(MaxRefs - RefsUsed(js_node_map)) :
          /\ js_node_map' = Append(js_node_map, node_data)
          /\ IF ParseNode(node_data).raised
             THEN /\ pc' = "done"
                  /\ outcome' = "KeyError"
                  /\ UNCHANGED <<node_map, selector_map, xpath_cache>>
             ELSE \E b \in {LoopBody(Builder, Len(js_node_map) + 1, node_data)} :
                  /\ node_map' = b.node_map
                  /\ selector_map' = b.selector_map
                  /\ xpath_cache' = b.xpath_cache
                  /\ UNCHANGED <<pc, outcome>>
    /\ calls' = IF outcome' = "none" THEN calls ELSE calls + 1
    /\ UNCHANGED <<js_root_id, first_result, pageVars, scanVars, restVars>>

\* The iterator is exhausted: node_map[str(js_root_id)] and the type check.
Resolve ==
    /\ pc = "loop"
    /\ \E root_id \in RootIds :
          /\ js_root_id' = root_id
          /\ outcome' = ResolveRoot(node_map, root_id)
    /\ pc' = "done"
    /\ calls' = calls + 1
    /\ UNCHANGED <<js_node_map, node_map, selector_map, xpath_cache, first_result, pageVars, scanVars, restVars>>

----------------------------------------------------------------------------

\* A service that has built nothing yet.
FreshService ==
    /\ js_node_map = <<>>
    /\ js_root_id = None
    /\ node_map = EmptyMap
    /\ selector_map = EmptyMap
    /\ xpath_cache = EmptyMap
    /\ outcome = "none"
    /\ calls = 0
    /\ first_result = NoResult

\* No page method has been called.
IdlePage ==
    /\ url = "https://example.com/"
    /\ page_eval = [context |-> "ok", map |-> <<>>, rootId |-> MissingId]
    /\ op = "none"
    /\ highlight_index = None
    /\ evaluate_log = <<>>
    /\ located = "none"
    /\ click_result = "none"
    /\ clicks_issued = <<>>
    /\ ret = "none"

\* No scan is running.
IdleScan ==
    /\ document = <<>>
    /\ include_hidden = FALSE
    /\ stack = <<>>
    /\ interactiveElements = <<>>
    /\ highlightIndex = 0

\* No element is being classified.
IdleClass ==
    /\ candidate = <<>>
    /\ classification = "none"

\* get_cross_origin_iframes has not been called.
IdleFrames ==
    /\ iframes = <<>>
    /\ hidden_frame_urls = <<>>
    /\ frame_at = 0
    /\ frame_urls = <<>>

\* A page nothing has been drawn on.
IdleOverlay ==
    /\ highlight_elements = TRUE
    /\ overlay = FALSE
    /\ screenshots = <<>>

\* No text is being typed; the addressed element is empty.
IdleType ==
    /\ text = <<>>
    /\ target_content = <<>>

\* No map has been iterated in another order.
IdleOrder == second_order = <<>>

\* execute_ai_command has not been called; the page is as it is.
IdleCommand ==
    /\ action = [kind |-> "none"]
    /\ shown_selector_map = EmptyMap
    /\ same_element = [i \in Ids |-> i]
    /\ status = "none"

\* run_task has not been called.
IdleAgent ==
    /\ max_actions = 0
    /\ max_thinking_steps = 0
    /\ thinking_steps = 0
    /\ action_count = 0
    /\ suggested = "none"
    /\ final_result = [success |-> FALSE, message |-> "none"]
    /\ analyze_calls = 0
    /\ execute_calls = 0
    /\ think_run = 0
    /\ complete_received = FALSE

\* An error, by the rate-limit terms its lowercased text holds.
NoError == {"none"}

\* _with_rate_limit_handling has not been called.
IdleRetry ==
    /\ max_retries = 0
    /\ retries = 0
    /\ delay = 0
    /\ rate_limit_retries = 0
    /\ retries_at_entry = 0
    /\ invocations = 0
    /\ errors = <<>>
    /\ raised = NoError

\* self.driver = None
NoDriver == 0

NoCall == [op |-> "none", error |-> "none", used |-> NoDriver, started |-> FALSE]

\* No NativeBrowser has been constructed.
IdleNative ==
    /\ browser_type = "none"
    /\ driver = NoDriver
    /\ wait = NoDriver
    /\ drivers_created = 0
    /\ quit_drivers = {}
    /\ started = FALSE
    /\ last_call = NoCall

\* No page with styled elements is open.
IdleStyle ==
    /\ styles = <<>>
    /\ styles_before = <<>>
    /\ target = 0
    /\ duration = 0
    /\ found = {}
    /\ highlight_raised = FALSE

NoSummary == [status |-> "none", steps_executed |-> 0, completed |-> FALSE]

\* execute_task has not been called.
IdleRunner ==
    /\ max_steps = 0
    /\ current_step_number = 0
    /\ next_step = "none"
    /\ step_history = <<>>
    /\ ended_by = "none"
    /\ summary = NoSummary
    /\ task_result = NoSummary

IdleLater == IdleCommand /\ IdleAgent /\ IdleRetry /\ IdleNative /\ IdleStyle /\ IdleRunner

\* Nothing of the parts modelled further down has started.
IdleRest == IdleClass /\ IdleFrames /\ IdleOverlay /\ IdleType /\ IdleOrder /\ IdleLater

InitDom ==
    /\ pc = "loop"
    /\ FreshService
    /\ IdlePage
    /\ IdleScan
    /\ IdleRest

NextDom == ParseEntry \/ Resolve

\* _construct_dom_tree called directly on every raw payload within the bounds.
SpecDom == InitDom /\ [][NextDom]_vars

----------------------------------------------------------------------------
\* A second build from the same payload on the same service instance.

\* The spec's scenario, children first: 1 = <button> with highlight index 0,
\* 2 = text "hi", 3 = body with children [1, 2]; rootId = 3.
ScenarioMap ==
    << NodeData("ELEMENT", "none", "button", Shown, 0, <<>>),
       NodeData("TEXT_NODE", "none", "", Shown, None, <<>>),
       NodeData("ELEMENT", "none", "body", Shown, None, <<1, 2>>) >>

ScenarioRoot == Len(ScenarioMap)

Result == [outcome |-> outcome, node_map |-> node_map, selector_map |-> selector_map,
           root |-> js_root_id]

\* The xpath_cache the service is left with by a snapshot of another page.
AfterOtherSnapshot(cache) ==
    ConstructDomTree(Items(ScenarioMap), ScenarioRoot, cache).xpath_cache

\* The caller builds again from the eval_page it built from before; in between
\* the service may have built a snapshot of another page.
Rebuild ==
    /\ pc = "done"
    /\ calls = 1
    /\ \E cache \in {xpath_cache, AfterOtherSnapshot(xpath_cache)} :
          \E r \in {ConstructDomTree(Items(js_node_map), js_root_id, cache)} :
             /\ outcome' = r.outcome
             /\ node_map' = r.node_map
             /\ selector_map' = r.selector_map
             /\ xpath_cache' = r.xpath_cache
    /\ first_result' = Result
    /\ calls' = calls + 1
    /\ UNCHANGED <<pc, js_node_map, js_root_id, pageVars, scanVars, restVars>>

NextRebuild == ParseEntry \/ Resolve \/ Rebuild

\* The orders in which a dict holding the entries of m may iterate them.
Orders(m) == {o \in [DOMAIN m -> DOMAIN m] : \A i, j \in DOMAIN m : o[i] = o[j] => i = j}

\* The items of m in the order o.
ItemsInOrder(m, o) == [i \in DOMAIN o |-> [id |-> o[i], data |-> m[o[i]]]]

\* The caller builds again from an eval_page with the same entries and
\* rootId, whose map iterates them in some order.
RebuildReordered ==
    /\ pc = "done"
    /\ calls = 1
    /\ js_root_id # None
    /\ js_node_map # <<>>
    /\ \E o \in Orders(js_node_map) :
          /\ second_order' = o
          /\ \E r \in {ConstructDomTree(ItemsInOrder(js_node_map, o), js_root_id, xpath_cache)} :
                /\ outcome' = r.outcome
                /\ node_map' = r.node_map
                /\ selector_map' = r.selector_map
                /\ xpath_cache' = r.xpath_cache
    /\ first_result' = Result
    /\ calls' = calls + 1
    /\ UNCHANGED <<pc, js_node_map, js_root_id, pageVars, scanVars>>
    /\ UNCHANGED <<classVars, frameVars, overlayVars, typeVars, laterVars>>

NextReorder == ParseEntry \/ Resolve \/ RebuildReordered

SpecReorder == InitDom /\ [][NextReorder]_vars

SpecRebuild == InitDom /\ [][NextRebuild]_vars

----------------------------------------------------------------------------
\* DomService._build_dom_tree, get_clickable_elements and click_element, one
\* step per await.

BlankUrl == "about:blank"

\* A page whose script context is `context` ("ok"; "detached": it evaluates
\* nothing right; "script_error": the extraction script throws in it) and in
\* which the extraction script gives {map, rootId}.
PageEval(context, map, rootId) == [context |-> context, map |-> map, rootId |-> rootId]

\* The pages a call may meet.
PageEvals ==
    { PageEval("ok", ScenarioMap, ScenarioRoot),
      PageEval("ok", ScenarioMap, 2),
      PageEval("ok", ScenarioMap, MissingId),
      PageEval("ok", << NodeData("ELEMENT", "none", "button", Shown, 0, <<>>),
                        NodeData("ELEMENT", "none", "button", Shown, 1, <<>>),
                        NodeData("ELEMENT", "none", "body", Shown, None, <<1, 2>>) >>, 3),
      PageEval("ok", << NodeData("ELEMENT", "none", "body", Shown, None, <<>>) >>, 1),
      PageEval("ok", << NodeData("TEXT_NODE", "text", "", Shown, None, <<>>) >>, 1),
      PageEval("script_error", <<>>, MissingId),
      PageEval("detached", <<>>, MissingId) }

\* The indices a caller may ask to click: two a payload may carry, one none does.
ClickIndices == HighlightIndices \cup {2}

\* The tree of the short circuit (service.py:104-113): one invisible body.
BlankRoot == 1
BlankTree ==
    BlankRoot :> [kind |-> "element", tag_name |-> "body", is_visible |-> FALSE,
                  is_in_viewport |-> FALSE, highlight_index |-> None,
                  children |-> <<>>, parent |-> None]

\* The url test as it would be if it never matched.
IsBlankNever(u) == FALSE

\* if self.page.url == 'about:blank' (service.py:102)
IsBlank(u) == u = BlankUrl

\* click_element without its try/except around the click.
ClickReturnUncaught(result) == IF result = "ok" THEN "True" ELSE "Error"

\* What click_element returns once element_handle.click() ended: True, or
\* False after the except clause logged the error (service.py:277-282).
ClickReturn(result) == IF result = "ok" THEN "True" ELSE "False"

\* What click_element returns once wait_for_selector ended without a handle
\* (None, or a TimeoutError caught at service.py:279); "none": it goes on.
LocateReturn(result) == IF result = "handle" THEN "none" ELSE "False"

\* What the extraction script leaves of highlight overlay on the page when it
\* is evaluated with doHighlightElements = do_highlight (service.py:116-125;
\* "highlight_elements: Whether to highlight the elements in the browser").
DrawHighlights(do_highlight, on_page) == on_page \/ do_highlight

\* The caller calls get_clickable_elements() (service.py:36-54).
CallGetClickableElements ==
    /\ pc = "idle"
    /\ op' = "get_clickable_elements"
    /\ \E h \in BOOLEAN : highlight_elements' = h
    /\ pc' = "sanity"
    /\ UNCHANGED <<buildVars, serviceVars>>
    /\ UNCHANGED <<scanVars, classVars, frameVars, typeVars, orderVars, laterVars, overlay, screenshots>>
    /\ UNCHANGED <<url, page_eval, highlight_index, evaluate_log, located, click_result,
                   clicks_issued, ret>>

\* The caller calls click_element(highlight_index), which first takes a
\* snapshot (service.py:268).
CallClickElement ==
    /\ pc \in {"idle", "analyzed"}
    /\ \E i \in ClickIndices : highlight_index' = i
    /\ op' = "click_element"
    /\ highlight_elements' = TRUE
    /\ pc' = "sanity"
    /\ UNCHANGED <<buildVars, serviceVars>>
    /\ UNCHANGED <<scanVars, classVars, frameVars, typeVars, orderVars, laterVars, overlay, screenshots>>
    /\ UNCHANGED <<url, page_eval, evaluate_log, located, click_result, clicks_issued, ret>>

\* The sanity test as it would be if it let every context pass.
SanityNeverFails(context) == FALSE

\* await self.page.evaluate('1+1') != 2 (service.py:99): a detached context
\* does not give 2.
SanityFails(context) == context = "detached"

\* if await self.page.evaluate('1+1') != 2: raise ValueError (service.py:99-100)
SanityCheck ==
    /\ pc = "sanity"
    /\ evaluate_log' = Append(evaluate_log, "1+1")
    /\ IF ~SanityFails(page_eval.context)
       THEN pc' = "url" /\ ret' = ret
       ELSE pc' = "done" /\ ret' = "ValueError"
    /\ UNCHANGED <<buildVars, serviceVars>>
    /\ UNCHANGED <<scanVars, restVars>>
    /\ UNCHANGED <<url, page_eval, op, highlight_index, located, click_result, clicks_issued>>

\* Where a call goes once its snapshot ended with `oc`.
AfterSnapshot(oc) ==
    IF oc # "returned" THEN pc' = "done" /\ ret' = oc
    ELSE IF op \in {"click_element", "input_text"} THEN pc' = "lookup" /\ ret' = ret
    ELSE IF op = "analyze_page" THEN pc' = "screenshot" /\ ret' = ret
    ELSE pc' = "done" /\ ret' = "DOMState"

\* The short circuit for a new empty tab (service.py:102-113).
ShortCircuit ==
    /\ pc = "url"
    /\ IsBlank(url)
    /\ node_map' = BlankTree
    /\ js_root_id' = BlankRoot
    /\ selector_map' = EmptyMap
    /\ outcome' = "returned"
    /\ AfterSnapshot("returned")
    /\ UNCHANGED <<js_node_map, serviceVars>>
    /\ UNCHANGED <<scanVars, restVars>>
    /\ UNCHANGED <<url, page_eval, op, highlight_index, evaluate_log, located, click_result,
                   clicks_issued>>

\* eval_page = await self.page.evaluate(self.js_code, args), which may raise,
\* then _construct_dom_tree(eval_page) (service.py:124-138).
EvaluateScript ==
    /\ pc = "url"
    /\ ~IsBlank(url)
    /\ evaluate_log' = Append(evaluate_log, "js_code")
    /\ IF page_eval.context # "ok"
       THEN /\ pc' = "done"
            /\ ret' = "Error"
            /\ UNCHANGED <<buildVars, calls, overlay>>
       ELSE \E r \in {ConstructDomTree(Items(page_eval.map), page_eval.rootId, xpath_cache)} :
            /\ js_node_map' = page_eval.map
            /\ js_root_id' = r.root
            /\ node_map' = r.node_map
            /\ selector_map' = r.selector_map
            /\ outcome' = r.outcome
            /\ calls' = calls + 1
            /\ overlay' = DrawHighlights(highlight_elements, overlay)
            /\ AfterSnapshot(r.outcome)
    /\ UNCHANGED <<xpath_cache, first_result>>
    /\ UNCHANGED <<scanVars, classVars, frameVars, typeVars, orderVars, laterVars, highlight_elements, screenshots>>
    /\ UNCHANGED <<url, page_eval, op, highlight_index, located, click_result, clicks_issued>>

\* if highlight_index in dom_state.selector_map (service.py:269), else
\* return False (service.py:282).
Lookup ==
    /\ pc = "lookup"
    /\ IF highlight_index \in DOMAIN selector_map
       THEN pc' = "locate" /\ ret' = ret
       ELSE pc' = "done" /\ ret' = "False"
    /\ UNCHANGED <<buildVars, serviceVars>>
    /\ UNCHANGED <<scanVars, restVars>>
    /\ UNCHANGED <<url, page_eval, op, highlight_index, evaluate_log, located, click_result,
                   clicks_issued>>

\* element_handle = await self.page.wait_for_selector(f"xpath={xpath}",
\* timeout=2000) (service.py:275-276).
WaitForSelector ==
    /\ pc = "locate"
    /\ \E result \in {"handle", "None", "TimeoutError"} :
          /\ located' = result
          /\ ret' = IF LocateReturn(result) = "none" THEN ret ELSE LocateReturn(result)
          /\ pc' = IF LocateReturn(result) = "none" THEN "click" ELSE "done"
    /\ UNCHANGED <<buildVars, serviceVars>>
    /\ UNCHANGED <<scanVars, restVars>>
    /\ UNCHANGED <<url, page_eval, op, highlight_index, evaluate_log, click_result, clicks_issued>>

\* await element_handle.click(); return True (service.py:277-278).  The
\* xpath of the element is modelled by the id of its node.
Click ==
    /\ pc = "click"
    /\ clicks_issued' = Append(clicks_issued, selector_map[highlight_index])
    /\ \E result \in {"ok", "Error"} :
          /\ click_result' = result
          /\ IF op = "input_text" /\ result = "ok"
             THEN pc' = "type" /\ ret' = ret
             ELSE pc' = "done" /\ ret' = ClickReturn(result)
    /\ UNCHANGED <<buildVars, serviceVars>>
    /\ UNCHANGED <<scanVars, restVars>>
    /\ UNCHANGED <<url, page_eval, op, highlight_index, evaluate_log, located>>

\* LLMController.analyze_page calls
\* dom_service.get_clickable_elements(highlight_elements=True)
\* (llm_controller.py:72-73).
CallAnalyzePage ==
    /\ pc = "idle"
    /\ op' = "analyze_page"
    /\ highlight_elements' = TRUE
    /\ pc' = "sanity"
    /\ UNCHANGED <<buildVars, serviceVars>>
    /\ UNCHANGED <<scanVars, classVars, frameVars, typeVars, orderVars, laterVars, overlay, screenshots>>
    /\ UNCHANGED <<url, page_eval, highlight_index, evaluate_log, located, click_result,
                   clicks_issued, ret>>

\* take_screenshot_with_highlights: await self.page.screenshot(path=...,
\* full_page=True); return output_path (service.py:245-256), called by
\* analyze_page (llm_controller.py:75-76).
TakeScreenshotWithHighlights ==
    /\ pc = "screenshot"
    /\ screenshots' = Append(screenshots, overlay)
    /\ pc' = "analyzed"
    /\ UNCHANGED <<buildVars, serviceVars>>
    /\ UNCHANGED <<scanVars, classVars, frameVars, typeVars, orderVars, laterVars, highlight_elements, overlay>>
    /\ UNCHANGED <<url, page_eval, op, highlight_index, evaluate_log, located, click_result,
                   clicks_issued, ret>>

\* The texts an input_text action may carry, and what the element may hold.
Texts == {<<"h", "i">>, <<"n">>}
Contents == {<<>>, <<"o", "l", "d">>}

\* The content of an element holding `content`, the caret after its first
\* `caret` characters, once `keys` are typed into it.
TypeInto(content, caret, keys) ==
    SubSeq(content, 1, caret) \o keys \o SubSeq(content, caret + 1, Len(content))

\* The input_text branch of BrowserAutomation._execute_action, which first
\* takes a snapshot with dom_service.get_clickable_elements()
\* (automation.py:343-350).
CallInputText ==
    /\ pc = "idle"
    /\ \E i \in ClickIndices : highlight_index' = i
    /\ \E t \in Texts : text' = t
    /\ op' = "input_text"
    /\ highlight_elements' = TRUE
    /\ pc' = "sanity"
    /\ UNCHANGED <<buildVars, serviceVars>>
    /\ UNCHANGED <<scanVars, classVars, frameVars, orderVars, laterVars, overlay, screenshots,
                   target_content>>
    /\ UNCHANGED <<url, page_eval, evaluate_log, located, click_result, clicks_issued, ret>>

\* await self.page.keyboard.type(text); return {"typed": True}
\* (automation.py:360-361).  The click before it put the caret somewhere in
\* the element's content; a failure is caught and gives {"typed": False}
\* (automation.py:362-365).
KeyboardType ==
    /\ pc = "type"
    /\ \/ /\ \E caret \in 0..Len(target_content) :
                target_content' = TypeInto(target_content, caret, text)
          /\ ret' = "True"
       \/ /\ target_content' = target_content
          /\ ret' = "False"
    /\ pc' = "done"
    /\ UNCHANGED <<buildVars, serviceVars>>
    /\ UNCHANGED <<scanVars, classVars, frameVars, overlayVars, orderVars, laterVars, text>>
    /\ UNCHANGED <<url, page_eval, op, highlight_index, evaluate_log, located, click_result,
                   clicks_issued>>

InitType ==
    /\ pc = "idle"
    /\ FreshService
    /\ url \in {BlankUrl, "https://example.com/"}
    /\ page_eval \in PageEvals
    /\ op = "none"
    /\ highlight_index = None
    /\ evaluate_log = <<>>
    /\ located = "none"
    /\ click_result = "none"
    /\ clicks_issued = <<>>
    /\ ret = "none"
    /\ IdleScan
    /\ IdleClass
    /\ IdleFrames
    /\ IdleOverlay
    /\ text = <<>>
    /\ target_content \in Contents
    /\ IdleOrder
    /\ IdleLater

NextType ==
    \/ CallInputText
    \/ SanityCheck
    \/ ShortCircuit
    \/ EvaluateScript
    \/ Lookup
    \/ WaitForSelector
    \/ Click
    \/ KeyboardType

\* One input_text action on a page.
SpecType == InitType /\ [][NextType]_vars

InitClick ==
    /\ pc = "idle"
    /\ FreshService
    /\ url \in {BlankUrl, "https://example.com/"}
    /\ page_eval \in PageEvals
    /\ op = "none"
    /\ highlight_index = None
    /\ evaluate_log = <<>>
    /\ located = "none"
    /\ click_result = "none"
    /\ clicks_issued = <<>>
    /\ ret = "none"
    /\ IdleScan
    /\ IdleRest

NextClick ==
    \/ CallGetClickableElements
    \/ CallClickElement
    \/ SanityCheck
    \/ ShortCircuit
    \/ EvaluateScript
    \/ Lookup
    \/ WaitForSelector
    \/ Click

\* One call of get_clickable_elements or click_element on a page.
SpecClick == InitClick /\ [][NextClick]_vars

NextAnalyze ==
    \/ CallAnalyzePage
    \/ SanityCheck
    \/ ShortCircuit
    \/ EvaluateScript
    \/ TakeScreenshotWithHighlights
    \/ CallClickElement
    \/ Lookup
    \/ WaitForSelector
    \/ Click

\* analyze_page on a page, and a click_element call after it.
SpecAnalyze == InitClick /\ [][NextAnalyze]_vars

----------------------------------------------------------------------------
\* BrowserAutomation.execute_ai_command (automation.py:272-319): analyze_page,
\* then _execute_action on what the planner answered, while the page lives on.

\* A page with two buttons, and one with none.
TwoButtonsMap ==
    << NodeData("ELEMENT", "none", "button", Shown, 0, <<>>),
       NodeData("ELEMENT", "none", "button", Shown, 1, <<>>),
       NodeData("ELEMENT", "none", "body", Shown, None, <<1, 2>>) >>

LoneBodyMap == << NodeData("ELEMENT", "none", "body", Shown, None, <<>>) >>

\* What the page may turn into while the planner thinks: `same` gives, for
\* each entry of the new snapshot, the entry of the old one that is the same
\* element (None: the element is new).  A button is inserted before the
\* scenario's button and its text goes; the first of two buttons goes and a
\* text comes; all but the body goes.
Mutations ==
    { [from |-> PageEval("ok", ScenarioMap, ScenarioRoot),
       to |-> PageEval("ok", TwoButtonsMap, 3), same |-> <<None, 1, 3>>],
      [from |-> PageEval("ok", TwoButtonsMap, 3),
       to |-> PageEval("ok", ScenarioMap, ScenarioRoot), same |-> <<2, None, 3>>],
      [from |-> PageEval("ok", ScenarioMap, ScenarioRoot),
       to |-> PageEval("ok", LoneBodyMap, 1), same |-> <<3>>] }

\* The actions _parse_llm_response may give (llm_controller.py:179-218), by
\* the key _execute_action dispatches on.
Actions ==
    {[kind |-> "error"], [kind |-> "unsupported"]}
        \cup {[kind |-> "click_element", index |-> i] : i \in ClickIndices}
        \cup {[kind |-> "input_text", index |-> i, text |-> t] : i \in {0}, t \in {<<"n">>}}

\* The rest of analyze_page: elements_info from dom_state.selector_map, the
\* prompt, the LLM's answer parsed (llm_controller.py:78-101).
PlannerAnswers ==
    /\ pc = "analyzed"
    /\ shown_selector_map' = selector_map
    /\ \E a \in Actions : action' = a
    /\ pc' = "planned"
    /\ UNCHANGED <<buildVars, serviceVars, pageVars, scanVars, earlierVars>>
    /\ UNCHANGED <<same_element, status, notCommandVars>>

\* if "error" in action: return {"status": "error", ...} (automation.py:295-298)
ReturnError ==
    /\ pc = "planned"
    /\ action.kind = "error"
    /\ status' = "error"
    /\ pc' = "returned"
    /\ UNCHANGED <<buildVars, serviceVars, pageVars, scanVars, earlierVars>>
    /\ UNCHANGED <<action, shown_selector_map, same_element, notCommandVars>>

\* The page changes between the snapshot shown to the planner and the
\* execution of its answer.
PageMutates ==
    /\ pc = "planned"
    /\ same_element = [i \in Ids |-> i]
    /\ \E m \in Mutations :
          /\ m.from = page_eval
          /\ page_eval' = m.to
          /\ same_element' = m.same
    /\ UNCHANGED <<pc, buildVars, serviceVars, scanVars, earlierVars>>
    /\ UNCHANGED <<url, op, highlight_index, evaluate_log, located, click_result,
                   clicks_issued, ret>>
    /\ UNCHANGED <<action, shown_selector_map, status, notCommandVars>>

\* result = await self._execute_action(action): the dispatch on the action's
\* key (automation.py:301, 336-345, 394-398).
ExecuteAction ==
    /\ pc = "planned"
    /\ action.kind # "error"
    /\ op' = action.kind
    /\ IF action.kind = "unsupported"
       THEN /\ pc' = "done"
            /\ ret' = "UnsupportedAction"
            /\ UNCHANGED <<highlight_index, text>>
       ELSE /\ pc' = "sanity"
            /\ ret' = ret
            /\ highlight_index' = action.index
            /\ text' = IF action.kind = "input_text" THEN action.text ELSE text
    /\ UNCHANGED <<buildVars, serviceVars, scanVars, classVars, frameVars, overlayVars,
                   orderVars, laterVars, target_content>>
    /\ UNCHANGED <<url, page_eval, evaluate_log, located, click_result, clicks_issued>>

\* The lines after _execute_action returned: wait_for_load_state, the
\* "after" screenshot, return {"status": "success", ...}
\* (automation.py:303-319).
ReturnSuccess ==
    /\ pc = "done"
    /\ op \in {"click_element", "input_text", "unsupported"}
    /\ ret \in {"True", "False", "UnsupportedAction"}
    /\ status' = "success"
    /\ pc' = "returned"
    /\ UNCHANGED <<buildVars, serviceVars, pageVars, scanVars, earlierVars>>
    /\ UNCHANGED <<action, shown_selector_map, same_element, notCommandVars>>

NextCommand ==
    \/ CallAnalyzePage
    \/ SanityCheck
    \/ ShortCircuit
    \/ EvaluateScript
    \/ TakeScreenshotWithHighlights
    \/ PlannerAnswers
    \/ ReturnError
    \/ PageMutates
    \/ ExecuteAction
    \/ Lookup
    \/ WaitForSelector
    \/ Click
    \/ KeyboardType
    \/ ReturnSuccess

\* One call of execute_ai_command on a page.
SpecCommand == InitClick /\ [][NextCommand]_vars

----------------------------------------------------------------------------
\* The script of BrowserUse.scan_interactive_elements (browser.py:299-462).
\* A document is a sequence of elements, element 1 being document.body; each
\* has its children, the children of its shadowRoot (none when it has no
\* shadowRoot), and what isElementVisible and isInteractiveElement give for it.

\* Most elements a scanned document holds.
MaxElements == 4

Body == 1

Element(children, shadow, visible, interactive) ==
    [children |-> children, shadow |-> shadow, visible |-> visible,
     interactive |-> interactive]

\* The ids in S whose place is [parent, slot], in document order.
RECURSIVE Placed(_, _, _, _)
Placed(place, parent, slot, e) ==
    IF e > MaxElements THEN <<>>
    ELSE (IF e # Body /\ place[e] = <<parent, slot>> THEN <<e>> ELSE <<>>)
         \o Placed(place, parent, slot, e + 1)

\* Every document of MaxElements elements: each element but the body is a
\* child, or a shadow-root child, of an element before it.
Documents ==
    { [e \in 1..MaxElements |->
          Element(Placed(place, e, "light", 1), Placed(place, e, "shadow", 1),
                  kind[e] = "visible", kind[e] # "plain")] :
        place \in { f \in [2..MaxElements -> (1..MaxElements) \X {"light", "shadow"}] :
                       \A e \in 2..MaxElements : f[e][1] < e },
        kind \in [1..MaxElements -> {"visible", "hidden", "plain"}] }

\* JavaScript's ToNumber and ToBoolean on the values the script passes as depth.
ToNumber(b) == IF b THEN 1 ELSE 0
ToBoolean(n) == n # 0

Frame(element, depth) == [element |-> element, depth |-> depth]

RECURSIVE Frames(_, _)
Frames(elements, depth) ==
    IF elements = <<>> THEN <<>>
    ELSE <<Frame(Head(elements), depth)>> \o Frames(Tail(elements), depth)

\* The recursive calls of processElement as they would be made with the
\* shadow root's children before the element's own.
ChildFramesShadowFirst(element, depth) ==
    Frames(document[element].shadow, depth + 1)
        \o Frames(document[element].children, depth + 1)

\* The recursive calls processElement makes for an element, in order
\* (browser.py:444-454).
ChildFrames(element, depth) ==
    Frames(document[element].children, depth + 1)
        \o Frames(document[element].shadow, depth + 1)

\* One call of processElement(element, depth, maxDepth) up to its recursive
\* calls, which it leaves on the stack (browser.py:403-455).  The outer call
\* passes depth = false and maxDepth = include_hidden (browser.py:458);
\* arguments[1] is depth.  isVisible is kept by its truth value.
ProcessElement ==
    /\ pc = "scan"
    /\ stack # <<>>
    /\ LET element == Head(stack).element
           depth == Head(stack).depth
           maxDepth == ToNumber(include_hidden)
           isVisible == ToBoolean(depth) \/ document[element].visible
       IN IF depth > maxDepth
          THEN /\ stack' = Tail(stack)
               /\ UNCHANGED <<interactiveElements, highlightIndex>>
          ELSE /\ IF (isVisible \/ ToBoolean(depth)) /\ document[element].interactive
                  THEN /\ interactiveElements' =
                             Append(interactiveElements,
                                    [element |-> element, isVisible |-> isVisible,
                                     highlightIndex |-> highlightIndex])
                       /\ highlightIndex' = highlightIndex + 1
                  ELSE UNCHANGED <<interactiveElements, highlightIndex>>
               /\ stack' = ChildFrames(element, depth) \o Tail(stack)
    /\ UNCHANGED <<pc, document, include_hidden>>
    /\ UNCHANGED <<buildVars, serviceVars, pageVars, restVars>>

\* return interactiveElements (browser.py:460).
ReturnElements ==
    /\ pc = "scan"
    /\ stack = <<>>
    /\ pc' = "done"
    /\ UNCHANGED <<buildVars, serviceVars, pageVars, scanVars, restVars>>

\* The script starts: processElement(document.body, false, include_hidden).
InitScan ==
    /\ pc = "scan"
    /\ FreshService
    /\ IdlePage
    /\ document \in Documents
    /\ include_hidden \in BOOLEAN
    /\ stack = <<Frame(Body, ToNumber(FALSE))>>
    /\ interactiveElements = <<>>
    /\ highlightIndex = 0
    /\ IdleRest

NextScan == ProcessElement \/ ReturnElements

SpecScan == InitScan /\ [][NextScan]_vars

----------------------------------------------------------------------------
\* isInteractiveElement of the scan script (browser.py:322-375), on an element
\* given by what the function reads of it.

\* JavaScript's null, as getAttribute gives it for an absent attribute.
JsNull == "<null>"

\* const interactiveCursors (browser.py:329)
interactiveCursors == {"pointer", "move", "text", "grab", "cell"}

\* const interactiveElements (browser.py:333-336), the tag list
interactiveTags ==
    {"a", "button", "details", "embed", "input", "menu", "menuitem",
     "object", "select", "textarea", "canvas", "summary", "dialog"}

\* const interactiveRoles (browser.py:338-341)
interactiveRoles ==
    {"button", "link", "checkbox", "radio", "menuitem", "option",
     "switch", "tab", "textbox", "combobox", "slider", "searchbox"}

\* The four ARIA state attributes tested with hasAttribute (browser.py:365-368).
ariaStates == {"aria-expanded", "aria-pressed", "aria-selected", "aria-checked"}

\* The elements classified.  onclick is "attribute" (an onclick attribute,
\* which also sets the property), "property" (a handler assigned by script)
\* or "none"; aria is the ARIA state attribute the element has, if any;
\* isContentEditable follows contentEditable unless that is "inherit".
Candidates ==
    { c \in [ tagName : {"div", "button", "summary"},
              role : {JsNull, "button", "banner"},
              onclick : {"none", "attribute", "property"},
              dataAction : {JsNull, "open"},
              contentEditable : {"true", "false", "inherit"},
              isContentEditable : BOOLEAN,
              draggable : BOOLEAN,
              tabindex : {JsNull, "0", "3", "-1", "-2"},
              aria : {JsNull, "aria-expanded", "aria-checked"},
              cursor : {"auto", "pointer", "cell"},
              classList : {{}, {"button"}},
              ariaHaspopup : {JsNull, "true", "false"} ] :
        /\ c.contentEditable = "true" => c.isContentEditable
        /\ c.contentEditable = "false" => ~c.isContentEditable }

\* isInteractiveElement(element) for an element node (browser.py:322-375).
isInteractiveElement(e) ==
    IF e.cursor \in interactiveCursors THEN TRUE
    ELSE IF \/ e.tagName \in interactiveTags
            \/ (e.role # JsNull /\ e.role \in interactiveRoles)
            \/ e.onclick # "none"
            \/ e.onclick = "attribute"
            \/ "button" \in e.classList
            \/ e.ariaHaspopup = "true"
            \/ e.contentEditable = "true"
            \/ e.isContentEditable
            \/ e.draggable
            \/ (e.tabindex # JsNull /\ e.tabindex # "-1")
            \/ e.dataAction # JsNull
         THEN TRUE
    ELSE IF e.aria \in ariaStates THEN TRUE
    ELSE FALSE

\* The script calls isInteractiveElement(element) (browser.py:408).
Classify ==
    /\ pc = "classify"
    /\ classification' = isInteractiveElement(candidate)
    /\ pc' = "done"
    /\ UNCHANGED <<buildVars, serviceVars, pageVars, scanVars, candidate, frameVars,
                   overlayVars, typeVars,
                   orderVars, laterVars>>

InitClassify ==
    /\ pc = "classify"
    /\ FreshService
    /\ IdlePage
    /\ IdleScan
    /\ candidate \in Candidates
    /\ classification = "none"
    /\ IdleFrames
    /\ IdleOverlay
    /\ IdleType
    /\ IdleOrder
    /\ IdleLater

NextClassify == Classify

SpecClassify == InitClassify /\ [][NextClassify]_vars

----------------------------------------------------------------------------
\* DomService.get_cross_origin_iframes (service.py:56-79).

\* Most <iframe> elements a page holds.
MaxFrames == 2

\* The urls of the frames: the page's own, about:blank, a data: url, another
\* site, two hosts of ad networks, and a host that has the name of an ad
\* network inside its own name.
FrameUrls ==
    {"https://example.com/", "about:blank", "data:text/html,hi",
     "https://widgets.org/embed", "https://doubleclick.net/ad",
     "https://ads.adroll.com/px", "https://myadroll.com/"}

\* urlparse(url).netloc, as a sequence of pieces of the host name so that
\* `domain in netloc` can be told; <<>> is the empty string.
Netloc(u) ==
    CASE u = "https://example.com/" -> <<"example.com">>
      [] u = "about:blank" -> <<>>
      [] u = "data:text/html,hi" -> <<>>
      [] u = "https://widgets.org/embed" -> <<"widgets.org">>
      [] u = "https://doubleclick.net/ad" -> <<"doubleclick.net">>
      [] u = "https://ads.adroll.com/px" -> <<"ads", ".", "adroll.com">>
      [] u = "https://myadroll.com/" -> <<"my", "adroll.com">>

\* The domains of is_ad_url (service.py:70).
AdDomains == {"doubleclick.net", "adroll.com", "googletagmanager.com"}

\* is_ad_url: any(domain in urlparse(url).netloc for domain in (...)), the
\* substring test of Python's `in` on strings (service.py:69-71).
is_ad_url(u) == \E i \in DOMAIN Netloc(u) : Netloc(u)[i] \in AdDomains

IFrame(src, visible) == [src |-> src, visible |-> visible]

\* self.page.frames: the main frame, then the frame of each iframe.
PageFrames == <<url>> \o [i \in DOMAIN iframes |-> iframes[i].src]

\* The condition of the list comprehension (service.py:76-79).
KeepFrame(frame_url) ==
    /\ Netloc(frame_url) # <<>>
    /\ Netloc(frame_url) # Netloc(url)
    /\ frame_url \notin Range(hidden_frame_urls)
    /\ ~is_ad_url(frame_url)

\* hidden_frame_urls = await self.page.locator('iframe').filter(visible=False)
\*     .evaluate_all('e => e.map(e => e.src)') (service.py:67)
LocateHiddenFrames ==
    /\ pc = "hidden"
    /\ hidden_frame_urls' =
          [i \in DOMAIN SelectSeq(iframes, LAMBDA f : ~f.visible) |->
              SelectSeq(iframes, LAMBDA f : ~f.visible)[i].src]
    /\ frame_at' = 1
    /\ pc' = "frames"
    /\ UNCHANGED <<buildVars, serviceVars, pageVars, scanVars, classVars, iframes, frame_urls,
                   overlayVars, typeVars,
                   orderVars, laterVars>>

\* One frame of `for frame in self.page.frames` (service.py:73-79).
FilterFrame ==
    /\ pc = "frames"
    /\ frame_at <= Len(PageFrames)
    /\ frame_urls' = IF KeepFrame(PageFrames[frame_at])
                     THEN Append(frame_urls, PageFrames[frame_at])
                     ELSE frame_urls
    /\ frame_at' = frame_at + 1
    /\ UNCHANGED <<pc, buildVars, serviceVars, pageVars, scanVars, classVars, iframes,
                   hidden_frame_urls, overlayVars, typeVars,
                   orderVars, laterVars>>

\* The list is returned.
ReturnFrames ==
    /\ pc = "frames"
    /\ frame_at > Len(PageFrames)
    /\ pc' = "done"
    /\ UNCHANGED <<buildVars, serviceVars, pageVars, scanVars, classVars, frameVars,
                   overlayVars, typeVars,
                   orderVars, laterVars>>

InitFrames ==
    /\ pc = "hidden"
    /\ FreshService
    /\ IdlePage
    /\ IdleScan
    /\ IdleClass
    /\ iframes \in UNION {[1..n -> {IFrame(u, v) : u \in FrameUrls, v \in BOOLEAN}] :
                             n \in 0..MaxFrames}
    /\ hidden_frame_urls = <<>>
    /\ frame_at = 0
    /\ frame_urls = <<>>
    /\ IdleOverlay
    /\ IdleType
    /\ IdleOrder
    /\ IdleLater

NextFrames == LocateHiddenFrames \/ FilterFrame \/ ReturnFrames

SpecFrames == InitFrames /\ [][NextFrames]_vars

----------------------------------------------------------------------------
\* AIController.run_task (ai_controller.py:402-500), one step per LLM answer.

\* Largest max_actions and max_thinking_steps a caller passes.
MaxActions == 4
MaxThinkingSteps == 1

\* What the LLM may answer, by the "action" value of the JSON it holds;
\* "unparsable" is text json.loads raises on.
Answers == {"think", "click", "complete", "unparsable"}

\* analyze_and_suggest_action: the action parsed from the answer, a think
\* action when it cannot be parsed (ai_controller.py:260-284).
SuggestedAction(answer) == IF answer = "unparsable" THEN "think" ELSE answer

\* action_count as it would be if think actions were not counted.
CountConcrete(count, act) == IF act = "think" THEN count ELSE count + 1

\* action_count += 1 (ai_controller.py:424)
CountAction(count, act) == count + 1

\* One pass of the loop up to the think test: capture_browser_state,
\* analyze_and_suggest_action, the counters (ai_controller.py:418-476).
Analyze ==
    /\ pc = "loop"
    /\ action_count < max_actions
    /\ analyze_calls <= MaxActions + 1
    /\ \E answer \in Answers :
          LET act == SuggestedAction(answer) IN
          /\ suggested' = act
          /\ action_count' = CountAction(action_count, act)
          /\ complete_received' = (complete_received \/ act = "complete")
          /\ think_run' = IF act = "think" THEN think_run + 1 ELSE think_run
          /\ IF act = "think"
             THEN /\ thinking_steps' = thinking_steps + 1
                  /\ pc' = IF thinking_steps + 1 > max_thinking_steps THEN "force" ELSE "loop"
             ELSE /\ thinking_steps' = 0
                  /\ pc' = "act"
    /\ analyze_calls' = analyze_calls + 1
    /\ UNCHANGED <<max_actions, max_thinking_steps, final_result, execute_calls>>
    /\ UNCHANGED notAgentVars

\* "Too many thinking steps, forcing an action": the answer to the forcing
\* prompt is parsed; on failure the loop continues (ai_controller.py:434-470).
ForceAction ==
    /\ pc = "force"
    /\ \E answer \in Answers :
          IF answer = "unparsable"
          THEN /\ pc' = "loop"
               /\ UNCHANGED <<suggested, thinking_steps, complete_received>>
          ELSE /\ suggested' = answer
               /\ thinking_steps' = 0
               /\ complete_received' = (complete_received \/ answer = "complete")
               /\ pc' = "act"
    /\ UNCHANGED <<max_actions, max_thinking_steps, action_count, final_result, analyze_calls,
                   execute_calls, think_run>>
    /\ UNCHANGED notAgentVars

\* The complete test and execute_action (ai_controller.py:478-497).
Act ==
    /\ pc = "act"
    /\ IF suggested = "complete"
       THEN /\ final_result' = [success |-> TRUE, message |-> "Task completed successfully"]
            /\ pc' = "returned"
            /\ UNCHANGED <<execute_calls, think_run>>
       ELSE /\ execute_calls' = execute_calls + 1
            /\ think_run' = IF suggested = "think" THEN think_run ELSE 0
            /\ pc' = "loop"
            /\ UNCHANGED final_result
    /\ UNCHANGED <<max_actions, max_thinking_steps, thinking_steps, action_count, suggested,
                   analyze_calls, complete_received>>
    /\ UNCHANGED notAgentVars

\* while action_count < max_actions ends: return final_result
\* (ai_controller.py:416, 499-500).
ReturnFinalResult ==
    /\ pc = "loop"
    /\ action_count >= max_actions
    /\ pc' = "returned"
    /\ UNCHANGED agentVars
    /\ UNCHANGED notAgentVars

InitAgent ==
    /\ pc = "loop"
    /\ FreshService
    /\ IdlePage
    /\ IdleScan
    /\ IdleClass /\ IdleFrames /\ IdleOverlay /\ IdleType /\ IdleOrder
    /\ IdleCommand
    /\ IdleRetry
    /\ IdleNative
    /\ IdleStyle
    /\ IdleRunner
    /\ max_actions \in 0..MaxActions
    /\ max_thinking_steps \in 0..MaxThinkingSteps
    /\ thinking_steps = 0
    /\ action_count = 0
    /\ suggested = "none"
    /\ final_result = [success |-> FALSE, message |-> "Task exceeded maximum actions"]
    /\ analyze_calls = 0
    /\ execute_calls = 0
    /\ think_run = 0
    /\ complete_received = FALSE

NextAgent == Analyze \/ ForceAction \/ Act \/ ReturnFinalResult

SpecAgent == InitAgent /\ [][NextAgent]_vars

\* Every await of the loop returns: the LLM answers and the browser acts.
SpecAgentFair == SpecAgent /\ WF_vars(NextAgent)

----------------------------------------------------------------------------
\* GeminiTaskRunner._with_rate_limit_handling (gemini_task_runner.py:80-132).

\* Largest max_retries a caller passes.
MaxRetries == 3

\* The terms the error text is searched for (gemini_task_runner.py:104-107).
RateLimitTerms ==
    {"rate limit", "ratelimit", "429", "too many requests", "quota exceeded",
     "resource exhausted"}

\* The errors the wrapped function raises here: a timeout, a 429 answer, a
\* quota error naming two of the terms.
Errors == {{}, {"429"}, {"quota exceeded", "resource exhausted"}}

is_rate_limit(e) == \E term \in RateLimitTerms : term \in e

\* The retry test with the comparison taken one later.
GivesUpLate(e, n, max) == ~is_rate_limit(e) \/ n > max

\* if not is_rate_limit or retries >= self.max_retries: raise
GivesUp(e, n, max) == ~is_rate_limit(e) \/ n >= max

Min(a, b) == IF a < b THEN a ELSE b

\* return await func(*args, **kwargs), or the except branch: re-raise, or
\* count the retry, sleep and double the delay.
Invoke ==
    /\ pc = "call"
    /\ invocations <= MaxRetries + 2
    /\ invocations' = invocations + 1
    /\ \/ /\ pc' = "returned"
          /\ UNCHANGED <<retries, delay, rate_limit_retries, errors, raised>>
       \/ \E e \in Errors :
            /\ errors' = Append(errors, e)
            /\ IF GivesUp(e, retries, max_retries)
               THEN /\ raised' = e
                    /\ pc' = "raised"
                    /\ UNCHANGED <<retries, delay, rate_limit_retries>>
               ELSE /\ retries' = retries + 1
                    /\ rate_limit_retries' = rate_limit_retries + 1
                    /\ delay' = Min(delay * 2, 60)
                    /\ pc' = "call"
                    /\ UNCHANGED raised
    /\ UNCHANGED <<max_retries, retries_at_entry>>
    /\ UNCHANGED notRetryVars

\* The wrapper is entered: retries = 0, delay = self.initial_retry_delay; the
\* report may hold retries of earlier calls.
InitRetry ==
    /\ pc = "call"
    /\ FreshService
    /\ IdlePage
    /\ IdleScan
    /\ IdleClass /\ IdleFrames /\ IdleOverlay /\ IdleType /\ IdleOrder
    /\ IdleCommand
    /\ IdleAgent
    /\ IdleNative
    /\ IdleStyle
    /\ IdleRunner
    /\ max_retries \in 0..MaxRetries
    /\ retries = 0
    /\ delay \in {2, 20}
    /\ rate_limit_retries \in 0..1
    /\ retries_at_entry = rate_limit_retries
    /\ invocations = 0
    /\ errors = <<>>
    /\ raised = NoError

NextRetry == Invoke

SpecRetry == InitRetry /\ [][NextRetry]_vars

----------------------------------------------------------------------------
\* NativeBrowser (native_browser.py): start, stop and the operations.

\* Most WebDrivers one NativeBrowser creates.
MaxStarts == 2

\* BrowserType.CHROME, BrowserType.FIREFOX, and a value that is neither.
BrowserTypes == {"chrome", "firefox", "other"}

\* The operations that go through self.wait, and those that go through
\* self.driver.
WaitOperations == {"click", "input_text", "get_element_text"}
DriverOperations ==
    {"navigate_to", "take_screenshot", "get_current_url", "get_page_title", "get_page_source",
     "wait_for_element", "find_elements", "execute_script", "get_cookies", "add_cookie",
     "delete_all_cookies", "get_browser_logs"}
Operations == WaitOperations \cup DriverOperations

\* The test with the check left out.
AlwaysStarted(d) == FALSE

\* if not self.driver
NotStarted(d) == d = NoDriver

\* start(): _start_chrome or _start_firefox creates the driver, then the
\* wait is created on it; any other browser type raises ValueError
\* (native_browser.py:82-94).
Start ==
    /\ pc = "browser"
    /\ drivers_created < MaxStarts
    /\ IF browser_type \in {"chrome", "firefox"}
       THEN /\ drivers_created' = drivers_created + 1
            /\ driver' = drivers_created + 1
            /\ wait' = drivers_created + 1
            /\ started' = TRUE
            /\ last_call' = [op |-> "start", error |-> "none", used |-> NoDriver,
                              started |-> started]
       ELSE /\ last_call' = [op |-> "start", error |-> "ValueError", used |-> NoDriver,
                              started |-> started]
            /\ UNCHANGED <<drivers_created, driver, wait, started>>
    /\ UNCHANGED <<browser_type, quit_drivers>>
    /\ UNCHANGED notNativeVars

\* stop(): quit the driver if there is one (native_browser.py:184-191).
Stop ==
    /\ pc = "browser"
    /\ IF driver # NoDriver
       THEN /\ quit_drivers' = quit_drivers \cup {driver}
            /\ driver' = NoDriver
            /\ wait' = NoDriver
       ELSE UNCHANGED <<quit_drivers, driver, wait>>
    /\ started' = FALSE
    /\ last_call' = [op |-> "stop", error |-> "none", used |-> NoDriver, started |-> started]
    /\ UNCHANGED <<browser_type, drivers_created>>
    /\ UNCHANGED notNativeVars

\* Any operation: the started test, then the work on self.driver or
\* self.wait; with neither set the work raises AttributeError on None.
Operate ==
    /\ pc = "browser"
    /\ \E method \in Operations :
          last_call' =
              IF NotStarted(driver)
              THEN [op |-> method, error |-> "RuntimeError", used |-> NoDriver,
                    started |-> started]
              ELSE LET d == IF method \in WaitOperations THEN wait ELSE driver IN
                   [op |-> method, error |-> IF d = NoDriver THEN "AttributeError" ELSE "none",
                    used |-> d, started |-> started]
    /\ UNCHANGED <<browser_type, driver, wait, drivers_created, quit_drivers, started>>
    /\ UNCHANGED notNativeVars

\* After __init__: driver and wait are None.
InitNative ==
    /\ pc = "browser"
    /\ FreshService
    /\ IdlePage
    /\ IdleScan
    /\ IdleClass /\ IdleFrames /\ IdleOverlay /\ IdleType /\ IdleOrder
    /\ IdleCommand
    /\ IdleAgent
    /\ IdleRetry
    /\ IdleStyle
    /\ IdleRunner
    /\ browser_type \in BrowserTypes
    /\ driver = NoDriver
    /\ wait = NoDriver
    /\ drivers_created = 0
    /\ quit_drivers = {}
    /\ started = FALSE
    /\ last_call = NoCall

NextNative == Start \/ Stop \/ Operate

SpecNative == InitNative /\ [][NextNative]_vars

----------------------------------------------------------------------------
\* BrowserUse.highlight_element, the highlighting of scan_interactive_elements
\* and clear_highlights (browser.py:216-249, 467-490, 559-583).

\* Elements of the page that carry or may get a style attribute.
MaxStyled == 2
Styled == 1..MaxStyled

\* A style attribute: absent, or present with a text.
Absent == [present |-> FALSE, value |-> ""]
Present(string) == [present |-> TRUE, value |-> string]

\* The style attributes the page's author gave the elements.
OwnStyles ==
    {Absent, Present(""), Present("color: red;"), Present("border: 1px solid black;"),
     Present("font-family: 'Arial';")}

\* String.prototype.includes
includes(string, searched) ==
    \E i \in 1..(Len(string) - Len(searched) + 1) :
        SubSeq(string, i, i + Len(searched) - 1) = searched

\* The per-index colors of the scan (browser.py:479-482).
colors ==
    <<"#FF0000", "#00FF00", "#0000FF", "#FF00FF", "#00FFFF",
      "#FFFF00", "#FFA500", "#800080", "#008080", "#FF69B4">>

\* style = f"border: {border_width}px solid {color}; background-color: ..."
HighlightStyle(border_width, color) ==
    "border: " \o ToString(border_width) \o "px solid " \o color
        \o "; background-color: rgba(255, 255, 0, 0.3);"

\* The script f"arguments[0].setAttribute('style', '{original_style}');": it
\* stands between single quotes, so a quote in it ends the literal and the
\* script does not parse.
ScriptParses(string) == ~includes(string, "'")

\* highlight_element(element, duration, color, border_width): the style
\* attribute afterwards, and whether the call raised.
HighlightElementResult(style, seconds, color, border_width) ==
    LET original_style == style   \* getAttribute('style'): None when absent
        highlighted == Present(HighlightStyle(border_width, color))
    IN  IF seconds > 0
        THEN IF original_style.present /\ original_style.value # ""
             THEN IF ScriptParses(original_style.value)
                  THEN [style |-> Present(original_style.value), raised |-> FALSE]
                  ELSE [style |-> highlighted, raised |-> TRUE]
             ELSE [style |-> Absent, raised |-> FALSE]
        ELSE [style |-> highlighted, raised |-> FALSE]

HighlightElement ==
    /\ pc = "styled"
    /\ \E element \in Styled, seconds \in {0, 2} :
          LET r == HighlightElementResult(styles[element], seconds, "yellow", 2) IN
          /\ target' = element
          /\ duration' = seconds
          /\ styles' = [styles EXCEPT ![element] = r.style]
          /\ highlight_raised' = r.raised
    /\ pc' = "highlighted"
    /\ UNCHANGED <<styles_before, found>>
    /\ UNCHANGED notStyleVars

\* The highlightIndex of a returned element: its position among them.
IndexOf(element, elements) == Cardinality({e \in elements : e < element})

\* scan_interactive_elements(highlight=True): every visible element the
\* script returned is highlighted with duration 0 (browser.py:467-490).
ScanAndHighlight ==
    /\ pc = "styled"
    /\ \E elements \in SUBSET Styled :
          /\ found' = elements
          /\ styles' =
                [e \in Styled |->
                    IF e \in elements
                    THEN HighlightElementResult(styles[e], 0,
                             colors[(IndexOf(e, elements) % 10) + 1], 2).style
                    ELSE styles[e]]
    /\ pc' = "scanned"
    /\ UNCHANGED <<styles_before, target, duration, highlight_raised>>
    /\ UNCHANGED notStyleVars

\* clear_highlights: the style attribute of every element whose style
\* includes 'border:' or 'background-color:' is removed (browser.py:567-579).
ClearHighlights ==
    /\ pc = "scanned"
    /\ styles' =
          [e \in Styled |->
              IF /\ styles[e].present
                 /\ \/ includes(styles[e].value, "border:")
                    \/ includes(styles[e].value, "background-color:")
              THEN Absent
              ELSE styles[e]]
    /\ pc' = "cleared"
    /\ UNCHANGED <<styles_before, target, duration, found, highlight_raised>>
    /\ UNCHANGED notStyleVars

InitStyle ==
    /\ pc = "styled"
    /\ FreshService
    /\ IdlePage
    /\ IdleScan
    /\ IdleClass /\ IdleFrames /\ IdleOverlay /\ IdleType /\ IdleOrder
    /\ IdleCommand
    /\ IdleAgent
    /\ IdleRetry
    /\ IdleNative
    /\ IdleRunner
    /\ styles \in [Styled -> OwnStyles]
    /\ styles_before = styles
    /\ target = 0
    /\ duration = 0
    /\ found = {}
    /\ highlight_raised = FALSE

NextStyle == HighlightElement \/ ScanAndHighlight \/ ClearHighlights

SpecStyle == InitStyle /\ [][NextStyle]_vars

----------------------------------------------------------------------------
\* TaskRunner.execute_task (task_runner.py:124-190, 277-315, 350-359).

\* Largest max_steps a caller passes.
MaxSteps == 3

\* What _generate_next_step returns: the planner's text, stripped.
NextSteps == {"", "TASK COMPLETED", "The task is finished", "Click on the 'Login' button"}

\* str.lower
lower(string) ==
    CASE string = "TASK COMPLETED" -> "task completed"
      [] string = "The task is finished" -> "the task is finished"
      [] string = "Click on the 'Login' button" -> "click on the 'login' button"
      [] OTHER -> string

\* not next_step or "completed" in next_step.lower() or "finished" in ...
SignalsCompletion(step) ==
    \/ step = ""
    \/ includes(lower(step), "completed")
    \/ includes(lower(step), "finished")

\* "completed" if self.current_step_number < self.max_steps else ...
StatusOf(step_number, max) == IF step_number < max THEN "completed" ELSE "max_steps_reached"

\* The loop test, and _generate_next_step with the completion test; an
\* exception of either ends the loop (task_runner.py:155-180).
GenerateNextStep ==
    /\ pc = "loop"
    /\ IF current_step_number < max_steps
       THEN \/ \E step \in NextSteps :
                 /\ next_step' = step
                 /\ IF SignalsCompletion(step)
                    THEN ended_by' = "planner" /\ pc' = "summary"
                    ELSE ended_by' = ended_by /\ pc' = "execute"
            \/ /\ ended_by' = "exception"
               /\ pc' = "summary"
               /\ UNCHANGED next_step
       ELSE /\ ended_by' = "max_steps"
            /\ pc' = "summary"
            /\ UNCHANGED next_step
    /\ UNCHANGED <<max_steps, current_step_number, step_history, summary, task_result>>
    /\ UNCHANGED notRunnerVars

\* _execute_step: execute_ai_command returns and the step is counted, or it
\* raises and the loop ends (task_runner.py:277-315, 165-180).
ExecuteStep ==
    /\ pc = "execute"
    /\ \/ \E result \in {"success", "failed"} :
            /\ current_step_number' = current_step_number + 1
            /\ step_history' = Append(step_history, result)
            /\ pc' = "loop"
            /\ UNCHANGED ended_by
       \/ /\ step_history' = Append(step_history, "error")
          /\ ended_by' = "exception"
          /\ pc' = "summary"
          /\ UNCHANGED current_step_number
    /\ UNCHANGED <<max_steps, next_step, summary, task_result>>
    /\ UNCHANGED notRunnerVars

\* _save_task_summary and the return (task_runner.py:182-190, 350-359).
SaveSummaryAndReturn ==
    /\ pc = "summary"
    /\ summary' = [status |-> "none", steps_executed |-> current_step_number,
                    completed |-> current_step_number < max_steps]
    /\ task_result' = [status |-> StatusOf(current_step_number, max_steps),
                        steps_executed |-> current_step_number, completed |-> FALSE]
    /\ pc' = "returned"
    /\ UNCHANGED <<max_steps, current_step_number, next_step, step_history, ended_by>>
    /\ UNCHANGED notRunnerVars

\* execute_task is entered: the history is emptied and the counter reset.
InitRunner ==
    /\ pc = "loop"
    /\ FreshService
    /\ IdlePage
    /\ IdleScan
    /\ IdleClass /\ IdleFrames /\ IdleOverlay /\ IdleType /\ IdleOrder
    /\ IdleCommand
    /\ IdleAgent
    /\ IdleRetry
    /\ IdleNative
    /\ IdleStyle
    /\ max_steps \in 0..MaxSteps
    /\ current_step_number = 0
    /\ next_step = "none"
    /\ step_history = <<>>
    /\ ended_by = "none"
    /\ summary = NoSummary
    /\ task_result = NoSummary

NextRunner == GenerateNextStep \/ ExecuteStep \/ SaveSummaryAndReturn

SpecRunner == InitRunner /\ [][NextRunner]_vars

----------------------------------------------------------------------------
\* Properties of _construct_dom_tree.

Returned == pc = "done" /\ outcome = "returned"

\* Every entry a children list names is iterated before the entry that names it.
ChildFirst(m) ==
    \A i \in DOMAIN m : \A k \in DOMAIN m[i].children :
        m[i].children[k] \in DOMAIN m => m[i].children[k] < i

\* The nodes reachable from the ids in S by at most n children links.
RECURSIVE ReachFrom(_, _, _)
ReachFrom(nm, S, n) ==
    IF n = 0 THEN S
    ELSE ReachFrom(nm, S \cup UNION {Range(nm[x].children) : x \in S}, n - 1)

\* The nodes of the returned tree.
TreeNodes == ReachFrom(node_map, {js_root_id}, Cardinality(DOMAIN node_map))

Parsed(children_ids) == SelectSeq(children_ids, LAMBDA c : c \in DOMAIN node_map)

\* C1: when every child entry is iterated before its parent, each element's
\* children list is the sequence of its payload child ids that parsed to
\* nodes, in payload order; the scenario payload gives body.children =
\* [button, text] and selector_map = {0: button}.
C1_ChildrenInPayloadOrder ==
    (Returned /\ ChildFirst(js_node_map)) =>
        /\ \A id \in DOMAIN node_map :
              node_map[id].kind = "element" =>
                  node_map[id].children = Parsed(js_node_map[id].children)
        /\ (js_node_map = ScenarioMap /\ js_root_id = ScenarioRoot) =>
              /\ node_map[3].children = <<1, 2>>
              /\ node_map[1].kind = "element" /\ node_map[1].tag_name = "button"
              /\ node_map[2].kind = "text"
              /\ selector_map = (0 :> 1)

C1_Witness ==
    Returned /\ js_node_map = ScenarioMap /\ js_root_id = ScenarioRoot

\* C2: every value of the returned selector map is a node reachable from the
\* returned root by children links.
C2_NoDanglingIndices ==
    Returned => \A hi \in DOMAIN selector_map : selector_map[hi] \in TreeNodes

\* C3: no two distinct element nodes of the returned tree carry the same
\* highlight index, and the selector map has the entry of every indexed node.
C3_UniqueIndices ==
    Returned =>
        /\ \A a, b \in TreeNodes :
              (a # b /\ node_map[a].highlight_index # None)
                  => node_map[a].highlight_index # node_map[b].highlight_index
        /\ \A a \in TreeNodes :
              node_map[a].highlight_index # None =>
                  /\ node_map[a].highlight_index \in DOMAIN selector_map
                  /\ selector_map[node_map[a].highlight_index] = a

Malformed(node_data) ==
    node_data.type = "EMPTY" \/ node_data.missing # "none"

WellFormedItems(m) == SelectSeq(Items(m), LAMBDA it : ~Malformed(it.data))

\* C6: a payload holding malformed entries is built to the end, and gives the
\* tree and selector map of the payload without those entries.
C6_MalformedSkipped ==
    (pc = "done" /\ \E i \in DOMAIN js_node_map : Malformed(js_node_map[i])) =>
        /\ js_root_id # None
        /\ LET r == ConstructDomTree(WellFormedItems(js_node_map), js_root_id, EmptyMap)
           IN /\ outcome = r.outcome
              /\ node_map = r.node_map
              /\ selector_map = r.selector_map

\* The error _construct_dom_tree raises for a root that is no element
\* (service.py:190-191).
StructuralError == "ValueError"

RootResolves == js_root_id \in DOMAIN node_map /\ node_map[js_root_id].kind = "element"

\* C7: a rootId that does not resolve to an element node (missing from the
\* map, skipped as empty, or a text node) ends the call with the structural
\* error, whichever of the three it is, and no tree is returned.
C7_OneStructuralError ==
    (pc = "done" /\ js_root_id # None /\ ~RootResolves) => outcome = StructuralError

SnapshotTaken == pc \in {"lookup", "locate", "click", "done"} /\ outcome = "returned"

\* The failure the spec names for an index that is not in the selector map.
IndexNotFound == "IndexNotFound"

\* C4: click_element with an index absent from the selector map signals
\* IndexNotFound, an outcome other than the False of a stale locator, and
\* issues no click.
C4_IndexNotFound ==
    (pc = "done" /\ op = "click_element" /\ outcome = "returned"
        /\ highlight_index \notin DOMAIN selector_map)
    => (ret = IndexNotFound /\ clicks_issued = <<>>)

\* C5 as claimed: on about:blank the builder returns the trivial tree with an
\* empty selector map and makes no call to page.evaluate.
C5_NoEvaluateOnBlank ==
    (url = BlankUrl /\ SnapshotTaken) =>
        /\ node_map = BlankTree /\ js_root_id = BlankRoot /\ selector_map = EmptyMap
        /\ evaluate_log = <<>>

\* C5 as amended: on about:blank the only call to page.evaluate is the
\* '1+1' sanity check, the extraction script is never evaluated, and when
\* the check passes the builder returns the trivial tree with an empty
\* selector map; when it fails the call raises ValueError.
C5_BlankShortCircuit ==
    url = BlankUrl =>
        /\ \A i \in DOMAIN evaluate_log : evaluate_log[i] = "1+1"
        /\ Len(evaluate_log) <= 1
        /\ SnapshotTaken =>
              /\ node_map = BlankTree /\ js_root_id = BlankRoot /\ selector_map = EmptyMap
              /\ evaluate_log = <<"1+1">>
        /\ (pc = "done" /\ ~SnapshotTaken) => ret = "ValueError"

C5_Witness ==
    url = BlankUrl /\ pc = "done" /\ op = "get_clickable_elements" /\ ret = "DOMState"

\* C8: when the snapshot succeeded and the index is in the selector map,
\* click_element raises nothing: it returns False if the element could not
\* be located again or the click failed, and True only after a click was
\* issued on the handle located by the element's xpath.
C8_StaleLocatorIsFalse ==
    (pc = "done" /\ op = "click_element" /\ outcome = "returned"
        /\ highlight_index \in DOMAIN selector_map)
    => /\ ret \in {"True", "False"}
       /\ (located # "handle" \/ click_result = "Error") => ret = "False"
       /\ ret = "True" =>
             /\ located = "handle"
             /\ click_result = "ok"
             /\ clicks_issued = <<selector_map[highlight_index]>>
       /\ located # "handle" => clicks_issued = <<>>

C8_Witness ==
    /\ pc = "done" /\ op = "click_element" /\ outcome = "returned"
    /\ highlight_index \in DOMAIN selector_map
    /\ located = "TimeoutError" /\ ret = "False"

\* The elements of the document in depth-first pre-order from `element`, the
\* children of a shadow root visited after the element's own children.
RECURSIVE PreOrder(_)
PreOrder(elements) ==
    IF elements = <<>> THEN <<>>
    ELSE <<Head(elements)>>
         \o PreOrder(document[Head(elements)].children \o document[Head(elements)].shadow)
         \o PreOrder(Tail(elements))

PositionIn(seq, x) == CHOOSE i \in DOMAIN seq : seq[i] = x

\* C10: the N elements the scan reports carry the highlight indices 0..N-1,
\* in the order of the depth-first pre-order walk from the body in which a
\* shadow root's children follow the host's own children.
C10_IndexOrder ==
    pc \in {"scan", "done"} =>
        /\ \A k \in DOMAIN interactiveElements :
              interactiveElements[k].highlightIndex = k - 1
        /\ \A i, j \in DOMAIN interactiveElements :
              i < j => PositionIn(PreOrder(<<Body>>), interactiveElements[i].element)
                        < PositionIn(PreOrder(<<Body>>), interactiveElements[j].element)

\* Three elements reported, one of a shadow root after a later-born child.
C10_Witness ==
    /\ pc = "done"
    /\ stack = <<>>
    /\ Len(interactiveElements) = 3
    /\ \E i, j \in DOMAIN interactiveElements :
          /\ i < j
          /\ interactiveElements[i].element > interactiveElements[j].element
          /\ interactiveElements[j].element \in Range(document[Body].shadow)

----------------------------------------------------------------------------
\* Properties of the page scan.

\* The scan has returned its list.
Scanned == pc = "done" /\ stack = <<>> /\ document # <<>>

\* C11: every element the scan returns with a highlightIndex is visible
\* (isElementVisible holds of it), for either value of include_hidden, and
\* the isVisible it is returned with says so.
C11_IndexedOnlyVisible ==
    Scanned =>
        \A k \in DOMAIN interactiveElements :
            /\ document[interactiveElements[k].element].visible
            /\ interactiveElements[k].isVisible

\* isInteractiveElement has returned.
Classified == pc = "done" /\ candidate # <<>>

\* The value of a tabindex attribute as an integer.
TabIndexNumber(t) ==
    CASE t = "0" -> 0 [] t = "3" -> 3 [] t = "-1" -> 0 - 1 [] t = "-2" -> 0 - 2

\* The classification rule as the spec lists it: any of the six holds.
RuleHolds(e) ==
    \/ e.tagName \in interactiveTags
    \/ e.role \in interactiveRoles
    \/ e.onclick # "none" \/ e.dataAction # JsNull
    \/ e.isContentEditable \/ e.draggable
    \/ (e.tabindex # JsNull /\ TabIndexNumber(e.tabindex) >= 0)
    \/ e.aria \in ariaStates
    \/ e.cursor \in interactiveCursors

\* C12: isInteractiveElement returns true for an element if and only if one
\* of the listed rules holds of it (tag, role, onclick/data-action or
\* content-editable/draggable, non-negative tabindex, an ARIA state
\* attribute, cursor).
C12_ClassifierIsTheRule ==
    Classified => (classification <=> RuleHolds(candidate))

----------------------------------------------------------------------------
\* Properties of get_cross_origin_iframes.

\* The host is a known ad domain or a subdomain of one.
AdHost(netloc) ==
    /\ netloc # <<>>
    /\ netloc[Len(netloc)] \in AdDomains
    /\ Len(netloc) > 1 => netloc[Len(netloc) - 1] = "."

\* The iframe's frame is one the claim says is listed.
Listed(f) ==
    /\ f.visible
    /\ Netloc(f.src) # <<>>
    /\ Netloc(f.src) # Netloc(url)
    /\ ~AdHost(Netloc(f.src))

\* C13: the returned list holds exactly the urls of the frames that are
\* visible, cross-origin and of no known ad domain: none hidden, none
\* same-origin, none of data: or about:blank, none of an ad domain, and every
\* visible cross-origin frame of another domain.
C13_ExactlyVisibleCrossOrigin ==
    (pc = "done" /\ frame_at > 0) =>
        Range(frame_urls) = {iframes[i].src : i \in {j \in DOMAIN iframes : Listed(iframes[j])}}

----------------------------------------------------------------------------
\* Properties of the highlight overlay.

\* C14: once analyze_page has taken the highlighted snapshot and
\* take_screenshot_with_highlights has returned, the live page carries no
\* highlight overlay, and none after a later click_element call either.
C14_OverlayRemoved ==
    (screenshots # <<>> /\ pc \in {"analyzed", "done"}) => ~overlay

----------------------------------------------------------------------------
\* Properties of the input_text action.

\* C15: input_text looks the index up and locates the element as click
\* does; after a successful call the element holds exactly the text,
\* whatever it held before; a failure to locate gives typed = False.
C15_TypeReplacesContent ==
    (pc = "done" /\ op = "input_text" /\ outcome = "returned") =>
        /\ ret \in {"True", "False"}
        /\ ret = "True" => target_content = text
        /\ located # "handle" => ret = "False"

----------------------------------------------------------------------------
\* Properties of the sanity check.

\* C16: on a page where page.evaluate('1+1') does not give 2, the call ends
\* with the error of the sanity check right after that one evaluation: the
\* extraction script is never evaluated, no tree is returned (not the
\* trivial one of about:blank either), nothing is retried, and the caller of
\* get_clickable_elements gets the error.
C16_SanityCheckFirst ==
    (page_eval.context = "detached" /\ pc \notin {"idle", "sanity"}) =>
        /\ pc = "done"
        /\ ret = "ValueError"
        /\ evaluate_log = <<"1+1">>
        /\ outcome = "none"
        /\ node_map = EmptyMap
        /\ calls = 0
        /\ clicks_issued = <<>>

C16_Witness ==
    /\ page_eval.context = "detached"
    /\ url = BlankUrl
    /\ op = "get_clickable_elements"
    /\ pc = "done"
    /\ ret = "ValueError"

----------------------------------------------------------------------------
\* More properties of _construct_dom_tree.

\* The loop over the map went through without an exception.
LoopCompleted == pc = "done" /\ js_root_id # None /\ js_node_map # <<>>

\* The child ids of entry `id` that were in node_map when the entry was
\* linked: those of entries iterated no later that parsed to a node.
InTable(id) ==
    SelectSeq(js_node_map[id].children, LAMBDA c : c \in DOMAIN node_map /\ c <= id)

\* C17: a child id that is not in node_map when its parent is linked is
\* skipped: the loop goes on to the end, the call returns if its root
\* resolves, the element's other children are linked in payload order, and
\* nothing stands in for the missing child.
C17_MissingChildSkipped ==
    (pc \in {"loop", "done"} /\ outcome \in {"none", "returned", "ValueError"}) =>
        /\ \A id \in DOMAIN node_map :
              /\ node_map[id].children = InTable(id)
              /\ Range(node_map[id].children) \subseteq DOMAIN node_map
        /\ (LoopCompleted /\ RootResolves) => outcome = "returned"

\* A returned tree with an element that names two children, the first of
\* them missing, the second linked.
C17_Witness ==
    /\ Returned
    /\ \E id \in DOMAIN node_map :
          /\ Len(js_node_map[id].children) = 2
          /\ js_node_map[id].children[1] \notin DOMAIN node_map
          /\ node_map[id].children = <<js_node_map[id].children[2]>>

\* How often x occurs in the sequence seq.
Occurrences(seq, x) == Cardinality({i \in DOMAIN seq : seq[i] = x})

\* C18: in a returned snapshot the root has no parent, every other node of
\* the tree has one, and each child of a node has that node as its parent,
\* occurs once in its children list and in no other node's children list.
C18_TreeShape ==
    Returned =>
        /\ node_map[js_root_id].parent = None
        /\ \A n \in TreeNodes \ {js_root_id} : node_map[n].parent # None
        /\ \A n \in DOMAIN node_map : \A c \in Range(node_map[n].children) :
              /\ node_map[c].parent = n
              /\ Occurrences(node_map[n].children, c) = 1
              /\ \A m \in DOMAIN node_map \ {n} : c \notin Range(node_map[m].children)

----------------------------------------------------------------------------
\* More properties of the page scan.

\* The elements the scan returned.
Reported == {interactiveElements[k].element : k \in DOMAIN interactiveElements}

\* C19: the scan covers the whole page: every interactive element under the
\* body (all of them lie less than 20 levels deep) is returned when it is
\* visible, whatever include_hidden is, and with include_hidden also when
\* it is not visible.
C19_WholePageScanned ==
    Scanned =>
        \A e \in Range(PreOrder(<<Body>>)) :
            (document[e].interactive /\ (document[e].visible \/ include_hidden))
                => e \in Reported

----------------------------------------------------------------------------
\* Properties of the iteration order.

\* A second build has iterated the entries in second_order.
Reordered == calls = 2 /\ second_order # <<>>

\* In the order o every entry that a children list names comes before the
\* entry that names it.
BottomUp(m, o) ==
    \A p \in DOMAIN o : \A k \in DOMAIN m[o[p]].children :
        m[o[p]].children[k] \in DOMAIN m =>
            \E q \in DOMAIN o : q < p /\ o[q] = m[o[p]].children[k]

SingleListing(m) ==
    \A c \in DOMAIN m :
        Cardinality({<<i, k>> \in (DOMAIN m) \X (1..MaxRefs) :
                        k \in DOMAIN m[i].children /\ m[i].children[k] = c}) <= 1

----------------------------------------------------------------------------
\* Properties of execute_ai_command.

\* The planner chose to click an index of the map it was shown.
ChoseShown ==
    /\ action.kind = "click_element"
    /\ op = "click_element"
    /\ action.index \in DOMAIN shown_selector_map

\* The live elements that are the element the planner chose.
LiveChosen ==
    {e \in DOMAIN page_eval.map : same_element[e] = shown_selector_map[action.index]}

\* C21: whatever the page turned into between the snapshot shown to the
\* planner and the click, every click click_element(i) issues lands on the
\* element that carried index i in the shown snapshot, and when that element
\* is gone the call returns False.
C21_ClicksShownElement ==
    (ChoseShown /\ pc \in {"done", "returned"}) =>
        /\ \A k \in DOMAIN clicks_issued : clicks_issued[k] \in LiveChosen
        /\ (LiveChosen = {} /\ ret \in {"True", "False"}) => ret = "False"

\* C29: status 'success' is returned only if the action was carried out:
\* never for clicked=False, typed=False or an unsupported action.
C29_SuccessMeansDone ==
    status = "success" => ret = "True"

----------------------------------------------------------------------------
\* Properties of AIController.run_task.

AgentRunning == pc \in {"loop", "force", "act", "returned"} /\ suggested \in {"none"} \cup Answers

\* What C22 says of every state of a run.
AgentBounded ==
    /\ analyze_calls <= max_actions
    /\ execute_calls <= max_actions
    /\ pc = "returned" =>
          /\ final_result.success => complete_received
          /\ ~final_result.success => final_result.message = "Task exceeded maximum actions"

C23_ThinkingBounded ==
    think_run <= max_thinking_steps + 1

----------------------------------------------------------------------------
\* Properties of GeminiTaskRunner._with_rate_limit_handling.

InWrapper == pc \in {"call", "returned", "raised"} /\ invocations > 0

\* C24: the wrapped function is invoked at most max_retries + 1 times; every
\* error followed by another invocation is a rate-limit error; an error that
\* is not one is re-raised at once; the last rate-limit error is re-raised
\* once max_retries retries are used up; report["rate_limit_retries"] grows
\* by one per retry.
C24_RetryOnlyRateLimits ==
    InWrapper =>
        /\ invocations <= max_retries + 1
        /\ \A i \in 1..Len(errors) :
              (i < Len(errors) \/ pc = "call") => is_rate_limit(errors[i])
        /\ \A i \in 1..Len(errors) :
              ~is_rate_limit(errors[i]) => (i = Len(errors) /\ pc = "raised" /\ raised = errors[i])
        /\ (pc = "raised" /\ is_rate_limit(raised)) =>
              (raised = errors[Len(errors)] /\ Len(errors) = max_retries + 1)
        /\ (Len(errors) = max_retries + 1) => pc = "raised"
        /\ rate_limit_retries = retries_at_entry + retries
        /\ retries = IF pc = "call" THEN invocations ELSE invocations - 1

\* All retries used up on rate-limit errors, the last of them re-raised.
C24_Witness ==
    /\ pc = "raised"
    /\ max_retries = MaxRetries
    /\ invocations = MaxRetries + 1
    /\ is_rate_limit(raised)
    /\ rate_limit_retries = retries_at_entry + MaxRetries

----------------------------------------------------------------------------
\* Properties of NativeBrowser.

C25_StoppedTwice ==
    /\ pc = "browser"
    /\ last_call.op = "stop"
    /\ ~last_call.started
    /\ quit_drivers # {}

----------------------------------------------------------------------------
\* Properties of the highlighting.

\* C26: after highlight_element with a duration above 0 the element's style
\* attribute is what it was before the call, absent or empty included; with
\* duration 0 the highlight style is on the element.
C26_HighlightRoundTrip ==
    pc = "highlighted" =>
        IF duration > 0
        THEN styles[target] = styles_before[target]
        ELSE styles[target] = Present(HighlightStyle(2, "yellow"))

\* C27: after scan_interactive_elements(highlight=True) and clear_highlights
\* every element's style attribute is what it was before the scan.
C27_ClearRestores ==
    pc = "cleared" => styles = styles_before

----------------------------------------------------------------------------
\* Properties of TaskRunner.execute_task.

\* C28: execute_task returns status 'completed', and the summary says
\* completed, only when the planner signalled completion; not when a step
\* raised or max_steps was reached; steps_executed is at most max_steps.
C28_CompletedMeansSignalled ==
    (pc = "returned" /\ ended_by # "none") =>
        /\ task_result.status = "completed" => ended_by = "planner"
        /\ summary.completed => ended_by = "planner"
        /\ task_result.steps_executed <= max_steps

====
